---- MODULE Spec2Model ----
(***************************************************************************)
(* secure-bank: the session lifecycle manager (lib/session.ts), the account *)
(* router and the account number generator (lib/random.ts), as state       *)
(* machines over one shared store.  Request workers suspend only at store  *)
(* operations, so every action below is one store operation together with  *)
(* the synchronous code that follows it up to the next store operation.    *)
(***************************************************************************)
EXTENDS Integers, Sequences, FiniteSets, TLC

\* ------------------------------------------------------------------ bounds
NProcs == 2          \* concurrent request workers
NUsers == 3          \* user ids 1..NUsers
MaxTokens == 2       \* sessions ever issued
MaxTime == 1         \* the clock runs 0..MaxTime, in ticks of one millisecond
ExpiryTicks == 1     \* SESSION_EXPIRY_MS (7 days) scaled to ticks of the model's clock
NAccounts == 3       \* accounts 1..NAccounts are in the store before the first step
MaxRows == 2         \* funding calls ever started
MaxAmount == 2       \* funding amounts 1..MaxAmount, in cents
MaxDraw == 1         \* secureRandomInt(min, max) draws from min..min + MaxDraw
MaxCreates == 2      \* createAccount calls that get past the conflict check
MaxFresh == 2        \* account numbers createAccount can draw that no account has at first

\* SESSION_CONFIG
MAX_SESSIONS_PER_USER == 1

\* generateSecureAccountNumber: secureRandomNumeric(10)
ACCOUNT_NUMBER_LENGTH == 10

Procs == 1..NProcs
Users == 1..NUsers
Tokens == 1..MaxTokens
\* token 0 is a string no session was ever issued with
AnyToken == 0..MaxTokens
AccountIds == 1..NAccounts
\* id NAccounts + 1 is the id of no account before createAccount has inserted one
AnyAccountId == 1..(NAccounts + 1)
\* the ids the store can give out
AllAccountIds == 1..(NAccounts + MaxCreates)
AccountTypes == {"checking", "savings"}
\* the numbers createAccount draws: the number of account NAccounts, which is
\* taken, and MaxFresh numbers that are not
CandidateNumbers == NAccounts..(NAccounts + MaxFresh)
Amounts == 1..MaxAmount
\* the amounts a request can carry: zero and a negative one as well
AnyAmount == (-1)..MaxAmount

VARIABLES
  now,           \* the wall clock, in milliseconds
  sessions,      \* the sessions table: a set of rows
  nextToken,     \* tokens are unique per issuance: the next fresh one
  loggedOut,     \* history: tokens for which invalidateSession returned true
  swept,         \* history: a sweep ran and neither the clock nor an insert followed
  accounts,      \* the accounts table as committed: id -> row
  transactions,  \* the transactions table as committed, in insertion order
  tx,            \* the open atomic unit (db.transaction) and its uncommitted tables
  calls,         \* history: per account, the fundAccount calls that returned a result
  pc,            \* pc[p]: where worker p stands inside a call of several store operations
  op,            \* op[p]: the arguments and locals of the call worker p is inside
  res,           \* what the last step decided or returned (NoCall when it returned nothing)
  result         \* secureRandomNumeric: the string built so far, as its characters

sessionVars == <<sessions, nextToken, loggedOut, swept>>
ledgerVars == <<accounts, transactions, tx, calls>>
numberVars == <<result>>
vars == <<now, sessions, nextToken, loggedOut, swept, accounts, transactions, tx, calls, pc, op, res,
          result>>

\* ---------------------------------------------------------- time as text
\* expiresAt is stored as the text Date.toISOString() gives; the model keeps
\* the fixed-width text as a pair of decimal digits, most significant first.
ToISO(t) == <<t \div 10, t % 10>>

\* new Date(text).getTime()
ParseDate(s) == s[1] * 10 + s[2]

\* SQL text comparison (lte/gt on a text column): lexicographic
TextLT(a, b) == a[1] < b[1] \/ (a[1] = b[1] /\ a[2] < b[2])
TextLTE(a, b) == a = b \/ TextLT(a, b)
TextGT(a, b) == TextLT(b, a)

\* --------------------------------------------------------------- sessions
NullSession == [token |-> 0, userId |-> 0, createdAt |-> 0, expiresAt |-> <<0, 0>>]

Idle == [name |-> "none"]
NoCall == [name |-> "none"]
NoSweep == [on |-> FALSE, removed |-> 0]

\* select().from(sessions).where(eq(sessions.userId, userId)).all()
SessionsOfUser(S, u) == {s \in S : s.userId = u}

\* select().from(sessions).where(eq(sessions.token, token)).get()
SessionByToken_noWhere(S, t) == S
SessionByToken(S, t) == {s \in S : s.token = t}

\* db.delete(sessions).where(eq(sessions.token, token))
DeleteByToken_keepsRow(S, t) == S
DeleteByToken_noWhere(S, t) == {}
DeleteByToken(S, t) == {s \in S : s.token # t}

\* validateSessionToken's expiry test: new Date(session.expiresAt) <= new Date()
IsExpired_strict(expiresAt, t) == ParseDate(expiresAt) < t
IsExpired_always(expiresAt, t) == TRUE
IsExpired(expiresAt, t) == ParseDate(expiresAt) <= t

\* what validateSessionToken(token) returns against store S at time t
ValidateResult(S, token, t) ==
  IF SessionByToken(S, token) = {} THEN NullSession
  ELSE LET s == CHOOSE x \in SessionByToken(S, token) : TRUE
       IN IF IsExpired(s.expiresAt, t) THEN NullSession ELSE s

\* cleanupExpiredSessions' predicate: lte(sessions.expiresAt, now)
SweepMatches_lt(s, t) == TextLT(s.expiresAt, ToISO(t))
SweepMatches(s, t) == TextLTE(s.expiresAt, ToISO(t))

\* getUserActiveSessions' predicate: eq(userId) and gt(sessions.expiresAt, now)
ActiveMatches_lt(s, u, t) == s.userId = u /\ TextLT(s.expiresAt, ToISO(t))
ActiveMatches(s, u, t) == s.userId = u /\ TextGT(s.expiresAt, ToISO(t))

\* enforceSessionLimit: filter(token !== keepToken)
EvictionCandidates_all(S, keepToken) == S
EvictionCandidates(S, keepToken) == {s \in S : s.token # keepToken}

\* enforceSessionLimit: sort by createdAt ascending, slice(0, k).  Rows with
\* equal createdAt may come in either order (the select has no ORDER BY), so
\* the result is any k candidates none of which is newer than one left out.
OldestFirst_newest(C, k) ==
  {D \in SUBSET C : /\ Cardinality(D) = (IF k < Cardinality(C) THEN k ELSE Cardinality(C))
                    /\ \A d \in D : \A e \in C \ D : d.createdAt >= e.createdAt}
OldestFirst(C, k) ==
  {D \in SUBSET C : /\ Cardinality(D) = (IF k < Cardinality(C) THEN k ELSE Cardinality(C))
                    /\ \A d \in D : \A e \in C \ D : d.createdAt <= e.createdAt}

\* history: worker q's enforceSessionLimit is disturbed when another worker
\* changes the rows of the user it is enforcing the limit for
Observed(q, S2) ==
  IF pc[q] = "enf_del" /\ SessionsOfUser(S2, op[q].user) # SessionsOfUser(sessions, op[q].user)
  THEN [op[q] EXCEPT !.clean = FALSE]
  ELSE op[q]

\* op' when worker p's locals become r and the sessions table becomes S2
OpStep(p, r, S2) == [q \in Procs |-> IF q = p THEN r ELSE Observed(q, S2)]

\* ---------------------------------------------------------------- ledger
NoTx == [owner |-> 0, rows |-> <<>>, acc |-> <<>>, beforeRows |-> <<>>, beforeAcc |-> <<>>]
NoCalls == [n |-> 0, total |-> 0, raced |-> FALSE]
NoRow == [id |-> 0, accountId |-> 0, type |-> "none", amount |-> 0, status |-> "none",
          createdAt |-> 0]

\* the rows of one account, as a set
RowsOf(rows, a) == {i \in DOMAIN rows : rows[i].accountId = a}

\* the sum of the amounts of one account's rows
RECURSIVE SumAmounts(_, _)
SumAmounts(rows, a) ==
  IF rows = <<>> THEN 0
  ELSE (IF Head(rows).accountId = a THEN Head(rows).amount ELSE 0) + SumAmounts(Tail(rows), a)

\* fundAccount, getTransactions: select the account where id = accountId and
\* userId = ctx.user.id
OwnedAccount_anyOwner(acc, a, u) == a \in DOMAIN acc
OwnedAccount(acc, a, u) == a \in DOMAIN acc /\ acc[a].userId = u

\* fundAccount input schema: amount: z.number().positive()
ValidAmount_nonNegative(amount) == amount >= 0
ValidAmount(amount) == amount > 0

\* fundAccount: account.status !== "active" is rejected
IsActive_any(account) == TRUE
IsActive(account) == account.status = "active"

\* tx.insert(transactions).values({accountId, type: "deposit", amount, ...,
\* status: "completed"}): the row gets the next id and the store's current
\* timestamp
NewRow_pending(rows, a, amount, t) ==
  [id |-> Len(rows) + 1, accountId |-> a, type |-> "deposit", amount |-> amount,
   status |-> "pending", createdAt |-> t]
NewRow(rows, a, amount, t) ==
  [id |-> Len(rows) + 1, accountId |-> a, type |-> "deposit", amount |-> amount,
   status |-> "completed", createdAt |-> t]

\* the insert is issued on the unit's handle tx, so the committed table does
\* not show the row before the unit commits
InsertVisible_db(rows, row) == Append(rows, row)
InsertVisible(rows, row) == rows

\* set({balance: sql`balance + ${amount}`}): the store adds to the balance it
\* holds; stale is the balance the call read before the unit
BalanceUpdate_stale(current, stale, amount) == stale + amount
BalanceUpdate(current, stale, amount) == current + amount

\* the update is issued on the unit's handle tx as well
UpdateVisible_db(acc, a, balance) == [acc EXCEPT ![a].balance = balance]
UpdateVisible(acc, a, balance) == acc

\* updatedAccount: tx.select().from(accounts).where(id = accountId).get(), read
\* on the unit's handle, so it sees the unit's own update; committed is what a
\* read outside the unit would see
RereadAccount_db(inUnit, committed, a) == committed[a]
RereadAccount(inUnit, committed, a) == inUnit[a]

\* newBalance: result.updatedAccount?.balance ?? null
NewBalance(updatedAccount) == updatedAccount.balance

\* select ... where accountId = a order by createdAt desc limit 1: a row of the
\* account none of whose rows is newer (any of them when createdAt ties)
LatestOf(rows, a) ==
  {i \in RowsOf(rows, a) : \A j \in RowsOf(rows, a) : rows[j].createdAt <= rows[i].createdAt}

\* getTransactions: where(eq(transactions.accountId, input.accountId))
TxFilter_all(rows, a) == {rows[i] : i \in DOMAIN rows}
TxFilter(rows, a) == {rows[i] : i \in RowsOf(rows, a)}

\* leftJoin(accounts, eq(transactions.accountId, accounts.id)): each selected
\* row with the accountType of its account
JoinAccount(R, acc) ==
  {[id |-> r.id, accountId |-> r.accountId, type |-> r.type, amount |-> r.amount,
    status |-> r.status, createdAt |-> r.createdAt,
    accountType |-> acc[r.accountId].accountType] : r \in R}

\* orderBy(desc(transactions.createdAt)).all(): the rows as a list, newest
\* first, rows of equal createdAt in any order
OrderByCreatedAtDesc(R) ==
  {q \in [1..Cardinality(R) -> R] :
     /\ \A i, j \in DOMAIN q : i # j => q[i] # q[j]
     /\ \A i, j \in DOMAIN q : i < j => q[i].createdAt >= q[j].createdAt}

\* the funding calls that have started and not returned
InFlight == {q \in Procs : pc[q] \in {"fund_begin", "tx_latest", "tx_update", "tx_reread"}}

FundError(p, code) ==
  [name |-> "fund", error |-> code, user |-> op[p].user, accountId |-> op[p].accountId,
   amount |-> op[p].amount, transaction |-> NoRow, newBalance |-> 0, failedAt |-> pc[p],
   beforeRows |-> IF tx.owner = p THEN tx.beforeRows ELSE transactions,
   beforeAcc |-> IF tx.owner = p THEN tx.beforeAcc ELSE accounts]


\* a new request is taken by the first worker that is inside no call
FreeWorker(p) == pc[p] = "idle" /\ \A q \in Procs : q < p => pc[q] # "idle"

Init ==
  /\ now = 0
  /\ sessions = {}
  /\ nextToken = 1
  /\ loggedOut = {}
  /\ swept = NoSweep
  /\ accounts = [a \in AccountIds |->
                   [userId |-> ((a - 1) % NUsers) + 1, accountNumber |-> a,
                    accountType |-> IF a <= NUsers THEN "checking" ELSE "savings",
                    balance |-> 0,
                    status |-> IF a = NAccounts THEN "inactive" ELSE "active"]]
  /\ transactions = <<>>
  /\ tx = NoTx
  /\ calls = [a \in AllAccountIds |-> NoCalls]
  /\ pc = [p \in Procs |-> "idle"]
  /\ op = [p \in Procs |-> Idle]
  /\ res = NoCall
  /\ result = <<>>

\* the clock advances
Tick ==
  /\ now < MaxTime
  /\ now' = now + 1
  /\ swept' = NoSweep
  /\ res' = NoCall
  /\ UNCHANGED <<sessions, nextToken, loggedOut, pc, op>>
  /\ UNCHANGED <<ledgerVars, numberVars>>

\* issue(ownerId): one insert of a row with a fresh token and a future expiresAt
CreateSession(u) ==
  /\ nextToken <= MaxTokens
  /\ LET s == [token |-> nextToken, userId |-> u,
               createdAt |-> now, expiresAt |-> ToISO(now + ExpiryTicks)]
     IN /\ sessions' = sessions \cup {s}
        /\ op' = [q \in Procs |-> Observed(q, sessions \cup {s})]
  /\ nextToken' = nextToken + 1
  /\ swept' = NoSweep
  /\ res' = NoCall
  /\ UNCHANGED <<now, loggedOut, pc>>
  /\ UNCHANGED <<ledgerVars, numberVars>>

\* ---- validateSessionToken: the select and the expiry test
ValidateSelect(p, t) ==
  /\ FreeWorker(p)
  /\ LET r == ValidateResult(sessions, t, now)
         lazy == SessionByToken(sessions, t) # {} /\ r = NullSession
     IN /\ res' = [name |-> "validate", token |-> t, ret |-> r, before |-> sessions]
        /\ pc' = [pc EXCEPT ![p] = IF lazy THEN "val_del" ELSE "idle"]
        /\ op' = [op EXCEPT ![p] = IF lazy THEN [name |-> "validate", token |-> t] ELSE Idle]
  /\ UNCHANGED <<now, sessions, nextToken, loggedOut, swept>>
  /\ UNCHANGED <<ledgerVars, numberVars>>

\* validateSessionToken: the delete of the expired row, then return null
ValidateDelete(p) ==
  /\ pc[p] = "val_del"
  /\ sessions' = DeleteByToken(sessions, op[p].token)
  /\ op' = OpStep(p, Idle, sessions')
  /\ pc' = [pc EXCEPT ![p] = "idle"]
  /\ res' = [name |-> "validate_delete", token |-> op[p].token, ret |-> NullSession,
             before |-> sessions]
  /\ UNCHANGED <<now, nextToken, loggedOut, swept>>
  /\ UNCHANGED <<ledgerVars, numberVars>>

\* ---- invalidateSession: the select
InvalidateSelect(p, t) ==
  /\ FreeWorker(p)
  /\ IF SessionByToken(sessions, t) = {}
     THEN /\ res' = [name |-> "invalidate", token |-> t, ret |-> FALSE,
                     prior |-> t \in loggedOut, known |-> FALSE, before |-> sessions]
          /\ UNCHANGED <<pc, op>>
     ELSE /\ res' = NoCall
          /\ pc' = [pc EXCEPT ![p] = "inv_del"]
          /\ op' = [op EXCEPT ![p] = [name |-> "invalidate", token |-> t,
                                      prior |-> t \in loggedOut]]
  /\ UNCHANGED <<now, sessions, nextToken, loggedOut, swept>>
  /\ UNCHANGED <<ledgerVars, numberVars>>

\* invalidateSession: the delete, then return true
InvalidateDelete(p) ==
  /\ pc[p] = "inv_del"
  /\ sessions' = DeleteByToken(sessions, op[p].token)
  /\ op' = OpStep(p, Idle, sessions')
  /\ loggedOut' = loggedOut \cup {op[p].token}
  /\ pc' = [pc EXCEPT ![p] = "idle"]
  /\ res' = [name |-> "invalidate", token |-> op[p].token, ret |-> TRUE,
             prior |-> op[p].prior, known |-> TRUE, before |-> sessions]
  /\ UNCHANGED <<now, nextToken, swept>>
  /\ UNCHANGED <<ledgerVars, numberVars>>

\* ---- enforceSessionLimit: the select, the limit test, the choice of rows
EnforceSelect(p, u, keepToken) ==
  /\ FreeWorker(p)
  /\ LET userSessions == SessionsOfUser(sessions, u)
         n == Cardinality(userSessions)
     IN IF n <= MAX_SESSIONS_PER_USER
        THEN /\ res' = [name |-> "enforce", user |-> u, keepToken |-> keepToken,
                        seen |-> userSessions, ret |-> 0, clean |-> TRUE]
             /\ UNCHANGED <<pc, op>>
        ELSE \E D \in OldestFirst(EvictionCandidates(userSessions, keepToken),
                                  n - MAX_SESSIONS_PER_USER) :
               /\ res' = NoCall
               /\ op' = [op EXCEPT ![p] = [name |-> "enforce", user |-> u,
                                           keepToken |-> keepToken, seen |-> userSessions,
                                           todo |-> D, deletedCount |-> 0, clean |-> TRUE]]
               /\ pc' = [pc EXCEPT ![p] = "enf_del"]
  /\ UNCHANGED <<now, sessions, nextToken, loggedOut, swept>>
  /\ UNCHANGED <<ledgerVars, numberVars>>

\* enforceSessionLimit: one turn of the delete loop, in the sorted order; after
\* the last turn the call returns deletedCount
EnforceDelete(p) ==
  /\ pc[p] = "enf_del"
  /\ \E s \in op[p].todo :
       /\ \A e \in op[p].todo : s.createdAt <= e.createdAt
       /\ sessions' = DeleteByToken(sessions, s.token)
       /\ IF op[p].todo = {s}
          THEN /\ op' = OpStep(p, Idle, sessions')
               /\ pc' = [pc EXCEPT ![p] = "idle"]
               /\ res' = [name |-> "enforce", user |-> op[p].user,
                          keepToken |-> op[p].keepToken, seen |-> op[p].seen,
                          ret |-> op[p].deletedCount + 1, clean |-> op[p].clean]
          ELSE /\ op' = OpStep(p, [op[p] EXCEPT !.todo = @ \ {s}, !.deletedCount = @ + 1],
                               sessions')
               /\ pc' = pc
               /\ res' = NoCall
  /\ UNCHANGED <<now, nextToken, loggedOut, swept>>
  /\ UNCHANGED <<ledgerVars, numberVars>>

\* ---- cleanupExpiredSessions: one bulk delete, then return 0
CleanupExpired(p) ==
  /\ FreeWorker(p)
  /\ sessions' = {s \in sessions : ~SweepMatches(s, now)}
  /\ op' = OpStep(p, Idle, sessions')
  /\ res' = [name |-> "cleanup", ret |-> 0, before |-> sessions,
             again |-> swept.on, firstRemoved |-> swept.removed]
  /\ swept' = [on |-> TRUE,
               removed |-> Cardinality({s \in sessions : SweepMatches(s, now)})]
  /\ UNCHANGED <<now, nextToken, loggedOut, pc>>
  /\ UNCHANGED <<ledgerVars, numberVars>>

\* ---- getUserActiveSessions: one select
GetUserActiveSessions(p, u) ==
  /\ FreeWorker(p)
  /\ res' = [name |-> "active", user |-> u,
             ret |-> {s \in sessions : ActiveMatches(s, u, now)}]
  /\ UNCHANGED <<now, sessions, nextToken, loggedOut, swept, pc, op>>
  /\ UNCHANGED <<ledgerVars, numberVars>>

SessionNext ==
  \/ Tick
  \/ \E u \in Users : CreateSession(u)
  \/ \E p \in Procs, t \in AnyToken : ValidateSelect(p, t)
  \/ \E p \in Procs : ValidateDelete(p)
  \/ \E p \in Procs, t \in AnyToken : InvalidateSelect(p, t)
  \/ \E p \in Procs : InvalidateDelete(p)
  \/ \E p \in Procs, u \in Users, t \in AnyToken : EnforceSelect(p, u, t)
  \/ \E p \in Procs : EnforceDelete(p)
  \/ \E p \in Procs : CleanupExpired(p)
  \/ \E p \in Procs, u \in Users : GetUserActiveSessions(p, u)

SessionSpec == Init /\ [][SessionNext]_vars

\* ---- login: issue a session, then enforceSessionLimit(userId, its token)
\* enforceSessionLimit: userSessions.length <= MAX_SESSIONS_PER_USER returns 0
OverLimit_never(n) == FALSE
OverLimit(n) == n > MAX_SESSIONS_PER_USER

\* login: the insert of the new session
LoginCreate(p, u) ==
  /\ FreeWorker(p)
  /\ nextToken <= MaxTokens
  /\ LET s == [token |-> nextToken, userId |-> u,
               createdAt |-> now, expiresAt |-> ToISO(now + ExpiryTicks)]
     IN /\ sessions' = sessions \cup {s}
        /\ op' = OpStep(p, [name |-> "login", user |-> u, token |-> nextToken], sessions')
  /\ nextToken' = nextToken + 1
  /\ pc' = [pc EXCEPT ![p] = "login_enf"]
  /\ swept' = NoSweep
  /\ res' = NoCall
  /\ UNCHANGED <<now, loggedOut>>
  /\ UNCHANGED <<ledgerVars, numberVars>>

\* login: enforceSessionLimit with the new token as keepToken; the select, the
\* limit test, the choice of rows
LoginEnforce(p) ==
  /\ pc[p] = "login_enf"
  /\ LET u == op[p].user
         keepToken == op[p].token
         userSessions == SessionsOfUser(sessions, u)
         n == Cardinality(userSessions)
     IN IF ~OverLimit(n)
        THEN /\ res' = [name |-> "enforce", user |-> u, keepToken |-> keepToken,
                        seen |-> userSessions, ret |-> 0, clean |-> TRUE]
             /\ pc' = [pc EXCEPT ![p] = "idle"]
             /\ op' = [op EXCEPT ![p] = Idle]
        ELSE \E D \in OldestFirst(EvictionCandidates(userSessions, keepToken),
                                  n - MAX_SESSIONS_PER_USER) :
               /\ res' = NoCall
               /\ op' = [op EXCEPT ![p] = [name |-> "enforce", user |-> u,
                                           keepToken |-> keepToken, seen |-> userSessions,
                                           todo |-> D, deletedCount |-> 0, clean |-> TRUE]]
               /\ pc' = [pc EXCEPT ![p] = "enf_del"]
  /\ UNCHANGED <<now, sessions, nextToken, loggedOut, swept>>
  /\ UNCHANGED <<ledgerVars, numberVars>>

LoginNext ==
  \/ Tick
  \/ \E p \in Procs, u \in Users : LoginCreate(p, u)
  \/ \E p \in Procs : LoginEnforce(p)
  \/ \E p \in Procs : EnforceDelete(p)

LoginSpec == Init /\ [][LoginNext]_vars

\* ---- getSessionInfo: one select; null without a row, else the row's fields
\* and isExpired: new Date(session.expiresAt) < new Date()
NoInfo == [userId |-> 0, createdAt |-> 0, expiresAt |-> <<0, 0>>, isExpired |-> FALSE]
SessionInfo(session, t) ==
  [userId |-> session.userId, createdAt |-> session.createdAt,
   expiresAt |-> session.expiresAt, isExpired |-> ParseDate(session.expiresAt) < t]

GetSessionInfo(p, token) ==
  /\ FreeWorker(p)
  /\ LET found == SessionByToken(sessions, token)
     IN res' = [name |-> "info", token |-> token,
                ret |-> IF found = {} THEN NoInfo ELSE SessionInfo(CHOOSE x \in found : TRUE, now)]
  /\ UNCHANGED <<now, sessions, nextToken, loggedOut, swept, pc, op>>
  /\ UNCHANGED <<ledgerVars, numberVars>>

\* ---- invalidateAllUserSessions with exceptToken: the select of the user's
\* sessions; the call returns existingSessions.filter(token !== exceptToken).length
InvalidateAllSelect(p, userId, exceptToken) ==
  /\ FreeWorker(p)
  /\ LET existingSessions == SessionsOfUser(sessions, userId)
         others == {x \in existingSessions : x.token # exceptToken}
     IN IF others = {}
        THEN /\ res' = [name |-> "invalidate_all", user |-> userId,
                        exceptToken |-> exceptToken, ret |-> 0, gone |-> {}]
             /\ UNCHANGED <<pc, op>>
        ELSE /\ res' = NoCall
             /\ pc' = [pc EXCEPT ![p] = "all_del"]
             /\ op' = [op EXCEPT ![p] = [name |-> "invalidate_all", user |-> userId,
                                         exceptToken |-> exceptToken,
                                         count |-> Cardinality(others),
                                         todo |-> others, gone |-> {}]]
  /\ UNCHANGED <<now, sessions, nextToken, loggedOut, swept>>
  /\ UNCHANGED <<ledgerVars, numberVars>>

\* invalidateAllUserSessions: one turn of the loop, a delete by token; `gone`
\* records the rows this call's deletes took out of the store
InvalidateAllDelete(p) ==
  /\ pc[p] = "all_del"
  /\ \E x \in op[p].todo :
       /\ sessions' = DeleteByToken(sessions, x.token)
       /\ IF op[p].todo = {x}
          THEN /\ op' = OpStep(p, Idle, sessions')
               /\ pc' = [pc EXCEPT ![p] = "idle"]
               /\ res' = [name |-> "invalidate_all", user |-> op[p].user,
                          exceptToken |-> op[p].exceptToken, ret |-> op[p].count,
                          gone |-> op[p].gone \cup (sessions \ sessions')]
          ELSE /\ op' = OpStep(p, [op[p] EXCEPT !.todo = @ \ {x},
                                                !.gone = @ \cup (sessions \ sessions')],
                               sessions')
               /\ pc' = pc
               /\ res' = NoCall
  /\ UNCHANGED <<now, nextToken, loggedOut, swept>>
  /\ UNCHANGED <<ledgerVars, numberVars>>

\* invalidateAllUserSessions without exceptToken: one delete where userId =
\* userId, then return 0
InvalidateAllBulk(p, userId) ==
  /\ FreeWorker(p)
  /\ sessions' = sessions \ SessionsOfUser(sessions, userId)
  /\ op' = OpStep(p, Idle, sessions')
  /\ res' = [name |-> "invalidate_all", user |-> userId, exceptToken |-> 0, ret |-> 0,
             gone |-> SessionsOfUser(sessions, userId)]
  /\ UNCHANGED <<now, nextToken, loggedOut, swept, pc>>
  /\ UNCHANGED <<ledgerVars, numberVars>>

InfoNext ==
  \/ Tick
  \/ \E u \in Users : CreateSession(u)
  \/ \E p \in Procs, t \in AnyToken : ValidateSelect(p, t)
  \/ \E p \in Procs : ValidateDelete(p)
  \/ \E p \in Procs, t \in AnyToken : GetSessionInfo(p, t)
  \/ \E p \in Procs, u \in Users, t \in Tokens : InvalidateAllSelect(p, u, t)
  \/ \E p \in Procs : InvalidateAllDelete(p)
  \/ \E p \in Procs, u \in Users : InvalidateAllBulk(p, u)

InfoSpec == Init /\ [][InfoNext]_vars

\* ---- fundAccount: the input schema, then the ownership and status checks
\* before the unit
FundRejected(u, a, amount, code, at) ==
  [name |-> "fund", error |-> code, user |-> u, accountId |-> a, amount |-> amount,
   transaction |-> NoRow, newBalance |-> 0, failedAt |-> at,
   beforeRows |-> transactions, beforeAcc |-> accounts]

FundCheck(p, u, a, amount) ==
  /\ FreeWorker(p)
  /\ Len(transactions) + Cardinality(InFlight) < MaxRows
  /\ IF ~ValidAmount(amount)
     THEN /\ res' = FundRejected(u, a, amount, "BAD_REQUEST", "input")
          /\ UNCHANGED <<pc, op>>
     ELSE IF ~OwnedAccount(accounts, a, u)
     THEN /\ res' = FundRejected(u, a, amount, "NOT_FOUND", "check")
          /\ UNCHANGED <<pc, op>>
     ELSE IF ~IsActive(accounts[a])
     THEN /\ res' = FundRejected(u, a, amount, "BAD_REQUEST", "check")
          /\ UNCHANGED <<pc, op>>
     ELSE /\ res' = NoCall
          /\ pc' = [pc EXCEPT ![p] = "fund_begin"]
          /\ op' = [op EXCEPT ![p] = [name |-> "fund", user |-> u, accountId |-> a,
                                      amount |-> amount, account |-> accounts[a],
                                      transaction |-> NoRow]]
  /\ UNCHANGED <<now, accounts, transactions, tx, calls>>
  /\ UNCHANGED <<sessionVars, numberVars>>

\* db.transaction opens the unit (one at a time) and the insert runs in it
FundInsert(p) ==
  /\ pc[p] = "fund_begin"
  /\ tx.owner = 0
  /\ LET row == NewRow(transactions, op[p].accountId, op[p].amount, now)
     IN /\ tx' = [owner |-> p, rows |-> Append(transactions, row), acc |-> accounts,
                  beforeRows |-> transactions, beforeAcc |-> accounts]
        /\ transactions' = InsertVisible(transactions, row)
  /\ pc' = [pc EXCEPT ![p] = "tx_latest"]
  /\ res' = NoCall
  /\ UNCHANGED <<now, accounts, calls, op>>
  /\ UNCHANGED <<sessionVars, numberVars>>

\* the unit reads back the account's latest row
FundLatest(p) ==
  /\ pc[p] = "tx_latest"
  /\ \E i \in LatestOf(tx.rows, op[p].accountId) :
       op' = [op EXCEPT ![p].transaction = tx.rows[i]]
  /\ pc' = [pc EXCEPT ![p] = "tx_update"]
  /\ res' = NoCall
  /\ UNCHANGED <<now, accounts, transactions, tx, calls>>
  /\ UNCHANGED <<sessionVars, numberVars>>

\* the unit adds the amount to the balance
FundUpdate(p) ==
  /\ pc[p] = "tx_update"
  /\ LET a == op[p].accountId
         b == BalanceUpdate(tx.acc[a].balance, op[p].account.balance, op[p].amount)
     IN /\ tx' = [tx EXCEPT !.acc[a].balance = b]
        /\ accounts' = UpdateVisible(accounts, a, b)
  /\ pc' = [pc EXCEPT ![p] = "tx_reread"]
  /\ res' = NoCall
  /\ UNCHANGED <<now, transactions, calls, op>>
  /\ UNCHANGED <<sessionVars, numberVars>>

\* the unit reads the account back, its callback returns, the unit commits and
\* fundAccount returns {transaction, newBalance}
FundReread(p) ==
  /\ pc[p] = "tx_reread"
  /\ LET a == op[p].accountId
     IN /\ accounts' = tx.acc
        /\ transactions' = tx.rows
        /\ res' = [name |-> "fund", error |-> "none", user |-> op[p].user, accountId |-> a,
                   amount |-> op[p].amount, transaction |-> op[p].transaction,
                   newBalance |-> NewBalance(RereadAccount(tx.acc, accounts, a)),
                   failedAt |-> "none", beforeRows |-> tx.beforeRows, beforeAcc |-> tx.beforeAcc]
        /\ calls' = [calls EXCEPT ![a] =
                       [n |-> @.n + 1, total |-> @.total + op[p].amount,
                        raced |-> @.raced \/ \E q \in InFlight \ {p} : op[q].accountId = a]]
  /\ tx' = NoTx
  /\ pc' = [pc EXCEPT ![p] = "idle"]
  /\ op' = [op EXCEPT ![p] = Idle]
  /\ UNCHANGED now
  /\ UNCHANGED <<sessionVars, numberVars>>

\* a store operation of the unit fails: the unit is rolled back and the call
\* ends in the error
FundFail(p) ==
  /\ pc[p] \in {"fund_begin", "tx_latest", "tx_update", "tx_reread"}
  /\ pc[p] = "fund_begin" => tx.owner = 0
  /\ res' = FundError(p, "STORAGE")
  /\ tx' = NoTx
  /\ pc' = [pc EXCEPT ![p] = "idle"]
  /\ op' = [op EXCEPT ![p] = Idle]
  /\ UNCHANGED <<now, accounts, transactions, calls>>
  /\ UNCHANGED <<sessionVars, numberVars>>

\* ---- getTransactions: the ownership check
GetTransactionsCheck(p, u, a) ==
  /\ FreeWorker(p)
  /\ IF ~OwnedAccount(accounts, a, u)
     THEN /\ res' = [name |-> "transactions", error |-> "NOT_FOUND", user |-> u,
                     accountId |-> a, rows |-> <<>>,
                     beforeRows |-> transactions, beforeAcc |-> accounts]
          /\ UNCHANGED <<pc, op>>
     ELSE /\ res' = NoCall
          /\ pc' = [pc EXCEPT ![p] = "gt_rows"]
          /\ op' = [op EXCEPT ![p] = [name |-> "transactions", user |-> u, accountId |-> a]]
  /\ UNCHANGED <<now, accounts, transactions, tx, calls>>
  /\ UNCHANGED <<sessionVars, numberVars>>

\* getTransactions: the select of the account's rows, which it returns
GetTransactionsRows(p) ==
  /\ pc[p] = "gt_rows"
  /\ \E rows \in OrderByCreatedAtDesc(JoinAccount(TxFilter(transactions, op[p].accountId),
                                                   accounts)) :
       res' = [name |-> "transactions", error |-> "none", user |-> op[p].user,
               accountId |-> op[p].accountId, rows |-> rows,
               beforeRows |-> transactions, beforeAcc |-> accounts]
  /\ pc' = [pc EXCEPT ![p] = "idle"]
  /\ op' = [op EXCEPT ![p] = Idle]
  /\ UNCHANGED <<now, accounts, transactions, tx, calls>>
  /\ UNCHANGED <<sessionVars, numberVars>>

LedgerNext ==
  \/ Tick
  \/ \E p \in Procs, u \in Users, a \in AnyAccountId : GetTransactionsCheck(p, u, a)
  \/ \E p \in Procs : GetTransactionsRows(p)
  \/ \E p \in Procs, u \in Users, a \in AnyAccountId, m \in AnyAmount : FundCheck(p, u, a, m)
  \/ \E p \in Procs : FundInsert(p)
  \/ \E p \in Procs : FundLatest(p)
  \/ \E p \in Procs : FundUpdate(p)
  \/ \E p \in Procs : FundReread(p)
  \/ \E p \in Procs : FundFail(p)

LedgerSpec == Init /\ [][LedgerNext]_vars

\* ---- createAccount
\* select ... where userId = ctx.user.id and accountType = input.accountType
ExistingAccount(acc, u, type) ==
  \E i \in DOMAIN acc : acc[i].userId = u /\ acc[i].accountType = type

\* select ... where accountNumber = n: the ids of the rows found
AccountByNumber(acc, n) == {i \in DOMAIN acc : acc[i].accountNumber = n}

\* isUnique = !existing
IsUnique_always(acc, n) == TRUE
IsUnique(acc, n) == AccountByNumber(acc, n) = {}

\* the row createAccount inserts
NewAccount(u, type, n) ==
  [userId |-> u, accountNumber |-> n, accountType |-> type, balance |-> 0, status |-> "active"]

\* the store keeps accountNumber unique: an insert of a number that a row has fails
InsertAccepted(acc, row) == AccountByNumber(acc, row.accountNumber) = {}

\* return account: the row that was read, with its id
ReturnedAccount_fallback(acc, i) ==
  [id |-> i, userId |-> acc[i].userId, accountNumber |-> acc[i].accountNumber,
   accountType |-> acc[i].accountType, balance |-> 100, status |-> acc[i].status]
ReturnedAccount(acc, i) ==
  [id |-> i, userId |-> acc[i].userId, accountNumber |-> acc[i].accountNumber,
   accountType |-> acc[i].accountType, balance |-> acc[i].balance, status |-> acc[i].status]

NoAccount == [id |-> 0, userId |-> 0, accountNumber |-> 0, accountType |-> "none",
              balance |-> 0, status |-> "none"]

\* the createAccount calls that are past the conflict check and have not inserted
Creating == {q \in Procs : pc[q] \in {"ca_generate", "ca_insert"}}

CreateResult(p, code, id, account) ==
  [name |-> "create", error |-> code, user |-> op[p].user, accountType |-> op[p].accountType,
   accountNumber |-> op[p].accountNumber, id |-> id, account |-> account, before |-> accounts]

\* createAccount: the select of an account of the caller with the requested type
CreateCheck(p, u, type) ==
  /\ FreeWorker(p)
  /\ Len(accounts) + Cardinality(Creating) < NAccounts + MaxCreates
  /\ IF ExistingAccount(accounts, u, type)
     THEN /\ res' = [name |-> "create", error |-> "CONFLICT", user |-> u, accountType |-> type,
                     accountNumber |-> 0, id |-> 0, account |-> NoAccount, before |-> accounts]
          /\ UNCHANGED <<pc, op>>
     ELSE /\ res' = NoCall
          /\ pc' = [pc EXCEPT ![p] = "ca_generate"]
          /\ op' = [op EXCEPT ![p] = [name |-> "create", user |-> u, accountType |-> type,
                                      accountNumber |-> 0]]
  /\ UNCHANGED <<now, accounts, transactions, tx, calls>>
  /\ UNCHANGED <<sessionVars, numberVars>>

\* createAccount: one round of the loop: a number is drawn and looked up; the
\* loop ends when no account has it
CreateGenerate(p, n) ==
  /\ pc[p] = "ca_generate"
  /\ pc' = [pc EXCEPT ![p] = IF IsUnique(accounts, n) THEN "ca_insert" ELSE "ca_generate"]
  /\ op' = [op EXCEPT ![p].accountNumber = n]
  /\ res' = [name |-> "candidate", worker |-> p, accountNumber |-> n]
  /\ UNCHANGED <<now, accounts, transactions, tx, calls>>
  /\ UNCHANGED <<sessionVars, numberVars>>

\* createAccount: the insert; it is a write of its own, which the store runs
\* when no atomic unit is open
CreateInsert(p) ==
  /\ pc[p] = "ca_insert"
  /\ tx.owner = 0
  /\ LET row == NewAccount(op[p].user, op[p].accountType, op[p].accountNumber)
     IN IF InsertAccepted(accounts, row)
        THEN /\ accounts' = Append(accounts, row)
             /\ pc' = [pc EXCEPT ![p] = "ca_reread"]
             /\ res' = NoCall
             /\ UNCHANGED op
        ELSE /\ res' = CreateResult(p, "STORAGE", 0, NoAccount)
             /\ pc' = [pc EXCEPT ![p] = "idle"]
             /\ op' = [op EXCEPT ![p] = Idle]
             /\ UNCHANGED accounts
  /\ UNCHANGED <<now, transactions, tx, calls>>
  /\ UNCHANGED <<sessionVars, numberVars>>

\* createAccount: the select by account number, and the return
CreateReread(p) ==
  /\ pc[p] = "ca_reread"
  /\ IF AccountByNumber(accounts, op[p].accountNumber) = {}
     THEN res' = CreateResult(p, "INTERNAL_SERVER_ERROR", 0, NoAccount)
     ELSE \E i \in AccountByNumber(accounts, op[p].accountNumber) :
            res' = CreateResult(p, "none", i, ReturnedAccount(accounts, i))
  /\ pc' = [pc EXCEPT ![p] = "idle"]
  /\ op' = [op EXCEPT ![p] = Idle]
  /\ UNCHANGED <<now, accounts, transactions, tx, calls>>
  /\ UNCHANGED <<sessionVars, numberVars>>

\* account creation next to funding: one deposit is enough to see how the two
\* interleave
FirstFundCheck(p, u, a, amount) ==
  /\ transactions = <<>>
  /\ InFlight = {}
  /\ FundCheck(p, u, a, amount)

AccountNext ==
  \/ \E p \in Procs, u \in Users, type \in AccountTypes : CreateCheck(p, u, type)
  \/ \E p \in Procs, n \in CandidateNumbers : CreateGenerate(p, n)
  \/ \E p \in Procs : CreateInsert(p)
  \/ \E p \in Procs : CreateReread(p)
  \/ \E p \in Procs, u \in Users, a \in AnyAccountId, m \in Amounts : FirstFundCheck(p, u, a, m)
  \/ \E p \in Procs : FundInsert(p)
  \/ \E p \in Procs : FundLatest(p)
  \/ \E p \in Procs : FundUpdate(p)
  \/ \E p \in Procs : FundReread(p)

AccountSpec == Init /\ [][AccountNext]_vars

\* ---- lib/random.ts
\* secureRandomInt(min, max): crypto.randomInt(min, max + 1), any integer of
\* min..max (the model draws from the first MaxDraw + 1 of them)
SecureRandomInt(min, max) == {n \in min..max : n - min <= MaxDraw}

\* secureRandomNumeric(length): one round of its loop, result += secureRandomInt(0, 9);
\* the string is returned when the loop has run length times
SecureRandomNumeric(length) ==
  /\ Len(result) < length
  /\ \E d \in SecureRandomInt(0, 9) : result' = Append(result, d)
  /\ UNCHANGED <<now, pc, op, res>>
  /\ UNCHANGED <<sessionVars, ledgerVars>>

\* generateSecureAccountNumber(): secureRandomNumeric(10)
GenerateSecureAccountNumber == SecureRandomNumeric(ACCOUNT_NUMBER_LENGTH)

\* the string generateSecureAccountNumber returned
Returned == Len(result) = ACCOUNT_NUMBER_LENGTH

NumberNext == GenerateSecureAccountNumber

NumberSpec == Init /\ [][NumberNext]_vars

\* ------------------------------------------------------- server/trpc.ts
\* the request's cookies hold no session token
NoCookie == -1
Cookies == {NoCookie} \cup AnyToken
\* ctx.user = null
NoUser == 0
\* decoded.userId of a token that jwt.verify accepts; a userId above NUsers
\* has no row in users
Decoded == 1..(NUsers + 1)

\* select().from(users).where(eq(users.id, decoded.userId)).get()
UserById(id) == IF id \in Users THEN id ELSE NoUser

\* protectedProcedure: if (!ctx.user) throw UNAUTHORIZED
Authorized_always(user) == TRUE
Authorized(user) == user # NoUser

\* the locals of a request that passed protectedProcedure
Request(user, token, session, at) ==
  [name |-> "request", user |-> user, token |-> token, session |-> session,
   validatedAt |-> at]

\* createContext returns {user}; protectedProcedure throws UNAUTHORIZED or
\* calls next(), the operation's handler
Protected(p, user, token, session, at) ==
  IF Authorized(user)
  THEN /\ pc' = [pc EXCEPT ![p] = "proc"]
       /\ op' = [op EXCEPT ![p] = Request(user, token, session, at)]
       /\ res' = NoCall
  ELSE /\ pc' = [pc EXCEPT ![p] = "idle"]
       /\ op' = [op EXCEPT ![p] = Idle]
       /\ res' = [name |-> "request", error |-> "UNAUTHORIZED", token |-> token]

\* ---- createContext: the cookie, jwt.verify (verified is false when it
\* throws), and validateSessionToken's select and expiry test
ContextSelect(p, token, verified) ==
  /\ FreeWorker(p)
  /\ LET r == ValidateResult(sessions, token, now)
         lazy == SessionByToken(sessions, token) # {} /\ r = NullSession
     IN IF token = NoCookie \/ ~verified
        THEN Protected(p, NoUser, token, NullSession, now)
        ELSE IF lazy
        THEN /\ pc' = [pc EXCEPT ![p] = "ctx_del"]
             /\ op' = [op EXCEPT ![p] = [name |-> "context", token |-> token,
                                         session |-> NullSession,
                                         validatedAt |-> now]]
             /\ res' = NoCall
        ELSE IF r = NullSession
        THEN Protected(p, NoUser, token, NullSession, now)
        ELSE /\ pc' = [pc EXCEPT ![p] = "ctx_user"]
             /\ op' = [op EXCEPT ![p] = [name |-> "context", token |-> token,
                                         session |-> r,
                                         validatedAt |-> now]]
             /\ res' = NoCall
  /\ UNCHANGED <<now, sessions, nextToken, loggedOut, swept>>
  /\ UNCHANGED <<ledgerVars, numberVars>>

\* createContext: validateSessionToken deletes the expired row and returns
\* null; user stays null
ContextDelete(p) ==
  /\ pc[p] = "ctx_del"
  /\ sessions' = DeleteByToken(sessions, op[p].token)
  /\ Protected(p, NoUser, op[p].token, NullSession, op[p].validatedAt)
  /\ UNCHANGED <<now, nextToken, loggedOut, swept>>
  /\ UNCHANGED <<ledgerVars, numberVars>>

\* createContext: with a session, the select of the user by decoded.userId,
\* the userId in the payload of the request's token
ContextUser(p, userId) ==
  /\ pc[p] = "ctx_user"
  /\ Protected(p, UserById(userId), op[p].token, op[p].session, op[p].validatedAt)
  /\ UNCHANGED <<now, sessions, nextToken, loggedOut, swept>>
  /\ UNCHANGED <<ledgerVars, numberVars>>

\* ---- getAccounts behind protectedProcedure: one select
ProtectedGetAccounts(p) ==
  /\ pc[p] = "proc"
  /\ res' = [name |-> "accounts", error |-> "none", user |-> op[p].user,
             token |-> op[p].token,
             ret |-> {a \in DOMAIN accounts : accounts[a].userId = op[p].user}]
  /\ pc' = [pc EXCEPT ![p] = "idle"]
  /\ op' = [op EXCEPT ![p] = Idle]
  /\ UNCHANGED <<now, accounts, transactions, tx, calls>>
  /\ UNCHANGED <<sessionVars, numberVars>>

\* ---- fundAccount behind protectedProcedure: the input schema, then the
\* ownership and status checks with ctx.user.id
ProtectedFund(p, a, amount) ==
  /\ pc[p] = "proc"
  /\ transactions = <<>>
  /\ InFlight = {}
  /\ LET u == op[p].user
     IN IF ~ValidAmount(amount)
        THEN /\ res' = FundRejected(u, a, amount, "BAD_REQUEST", "input")
             /\ pc' = [pc EXCEPT ![p] = "idle"]
             /\ op' = [op EXCEPT ![p] = Idle]
        ELSE IF ~OwnedAccount(accounts, a, u)
        THEN /\ res' = FundRejected(u, a, amount, "NOT_FOUND", "check")
             /\ pc' = [pc EXCEPT ![p] = "idle"]
             /\ op' = [op EXCEPT ![p] = Idle]
        ELSE IF ~IsActive(accounts[a])
        THEN /\ res' = FundRejected(u, a, amount, "BAD_REQUEST", "check")
             /\ pc' = [pc EXCEPT ![p] = "idle"]
             /\ op' = [op EXCEPT ![p] = Idle]
        ELSE /\ res' = NoCall
             /\ pc' = [pc EXCEPT ![p] = "fund_begin"]
             /\ op' = [op EXCEPT ![p] = [name |-> "fund", user |-> u, accountId |-> a,
                                         amount |-> amount, account |-> accounts[a],
                                         transaction |-> NoRow, token |-> op[p].token,
                                         session |-> op[p].session,
                                         validatedAt |-> op[p].validatedAt]]
  /\ UNCHANGED <<now, accounts, transactions, tx, calls>>
  /\ UNCHANGED <<sessionVars, numberVars>>

AuthNext ==
  \/ Tick
  \/ \E u \in Users : CreateSession(u)
  \/ \E p \in Procs, t \in Tokens : InvalidateSelect(p, t)
  \/ \E p \in Procs : InvalidateDelete(p)
  \/ \E p \in Procs, t \in Cookies, v \in BOOLEAN : ContextSelect(p, t, v)
  \/ \E p \in Procs : ContextDelete(p)
  \/ \E p \in Procs, d \in Decoded : ContextUser(p, d)
  \/ \E p \in Procs : ProtectedGetAccounts(p)
  \/ \E p \in Procs, a \in AccountIds, m \in Amounts : ProtectedFund(p, a, m)
  \/ \E p \in Procs : FundInsert(p)
  \/ \E p \in Procs : FundLatest(p)
  \/ \E p \in Procs : FundUpdate(p)
  \/ \E p \in Procs : FundReread(p)

AuthSpec == Init /\ [][AuthNext]_vars

Next == SessionNext \/ LoginNext \/ InfoNext \/ AuthNext \/ LedgerNext \/ AccountNext \/ NumberNext

Spec == Init /\ [][Next]_vars

\* ================================================================ claims
\* C1: in every state a reader can see, each account's committed balance equals
\* the sum of the amounts of its committed transaction rows, also while
\* fundAccount units are open.
C1_BalanceEqualsLedger ==
  \A a \in AccountIds : accounts[a].balance = SumAmounts(transactions, a)

\* C1 witness: a unit has inserted its row and not yet updated the balance,
\* while an earlier deposit is committed
C1_Witness ==
  /\ \E p \in Procs : pc[p] = "tx_update" /\ tx.owner = p
  /\ Len(tx.rows) > Len(transactions)
  /\ Len(transactions) >= 1

\* C2: once every fundAccount call has returned, each account's balance is the
\* initial balance 0 plus the amounts of the calls that returned a result, and
\* it has exactly one row per such call, whatever the interleaving.
C2_NoLostUpdate ==
  InFlight = {} =>
    \A a \in AccountIds :
      /\ accounts[a].balance = calls[a].total
      /\ Cardinality(RowsOf(transactions, a)) = calls[a].n

\* C2 witness: two calls on one account overlapped and both have returned
C2_Witness ==
  /\ InFlight = {}
  /\ \E a \in AccountIds : calls[a].n = 2 /\ calls[a].raced

\* C3: when a store operation of the unit fails (the insert, the read of the
\* latest row, the balance update or the re-read), the call ends in an error
\* and the committed rows and balances are those of before the unit.
C3_FailedUnitLeavesNoTrace ==
  (res.name = "fund" /\ res.error = "STORAGE") =>
    /\ transactions = res.beforeRows
    /\ accounts = res.beforeAcc

\* C3 witness: the re-read failed, after the unit's insert and update, with an
\* earlier deposit committed
C3_Witness ==
  /\ res.name = "fund" /\ res.error = "STORAGE" /\ res.failedAt = "tx_reread"
  /\ Len(transactions) >= 1

\* C11: getTransactions(X) returns only rows of account X, all the rows of X
\* that are committed when it reads, each once, and in non-increasing createdAt
\* order, while other accounts are being funded.
C11_OnlyOwnRowsNewestFirst ==
  (res.name = "transactions" /\ res.error = "none") =>
    /\ \A i \in DOMAIN res.rows : res.rows[i].accountId = res.accountId
    /\ {res.rows[i].id : i \in DOMAIN res.rows} =
         {transactions[i].id : i \in RowsOf(transactions, res.accountId)}
    /\ Len(res.rows) = Cardinality(RowsOf(transactions, res.accountId))
    /\ \A i, j \in DOMAIN res.rows : i < j => res.rows[i].createdAt >= res.rows[j].createdAt

\* C11 witness: the rows of an account are returned while a unit that funds
\* another account is open
C11_Witness ==
  /\ res.name = "transactions" /\ res.error = "none" /\ Len(res.rows) >= 1
  /\ tx.owner # 0
  /\ \E i \in DOMAIN tx.rows : tx.rows[i].accountId # res.accountId

C13_NonActiveIsRejected ==
  /\ (/\ res.name = "fund" /\ res.amount > 0
      /\ res.accountId \in DOMAIN accounts
      /\ accounts[res.accountId].userId = res.user
      /\ accounts[res.accountId].status # "active") =>
        /\ res.error = "BAD_REQUEST"
        /\ res.transaction = NoRow
        /\ transactions = res.beforeRows
        /\ accounts = res.beforeAcc
  /\ \A i \in DOMAIN transactions : accounts[transactions[i].accountId].status = "active"

\* C13 witness: the owner's funding of the inactive account is rejected while
\* a deposit on another account is committed
C13_Witness ==
  /\ res.name = "fund" /\ res.error = "BAD_REQUEST" /\ res.failedAt = "check"
  /\ accounts[res.accountId].status = "inactive"
  /\ Len(transactions) >= 1

\* C14: fundAccount with a zero or negative amount is rejected by the input
\* schema with no store operation made, every committed row has amount > 0,
\* every balance is non-negative, and no step lowers a balance.
C14_OnlyPositiveAmounts ==
  /\ [](/\ (res.name = "fund" /\ res.amount <= 0) =>
             /\ res.error = "BAD_REQUEST" /\ res.failedAt = "input"
             /\ transactions = res.beforeRows
             /\ accounts = res.beforeAcc
        /\ \A i \in DOMAIN transactions : transactions[i].amount > 0
        /\ \A a \in DOMAIN accounts : accounts[a].balance >= 0)
  /\ [][\A a \in DOMAIN accounts : accounts'[a].balance >= accounts[a].balance]_vars

\* C14 witness: a request with amount 0 is rejected after a deposit committed
C14_Witness ==
  /\ res.name = "fund" /\ res.amount = 0 /\ res.error = "BAD_REQUEST"
  /\ \E a \in DOMAIN accounts : accounts[a].balance > 0

\* C15: in every state there is at most one account per (owner, account
\* type), also when createAccount calls run concurrently, and a createAccount
\* call made when the caller has an account of the type ends with CONFLICT and
\* inserts nothing.
C15_OneAccountPerOwnerAndType ==
  /\ \A i, j \in DOMAIN accounts :
       (accounts[i].userId = accounts[j].userId /\ accounts[i].accountType = accounts[j].accountType)
         => i = j
  /\ (res.name = "create" /\ res.error = "CONFLICT") => accounts = res.before

\* C16: every account number generateSecureAccountNumber returns is exactly
\* 10 decimal digits and its first digit is in 1..9.
C16_TenDigitsNonZeroLead ==
  Returned =>
    /\ Len(result) = 10
    /\ \A i \in DOMAIN result : result[i] \in 0..9
    /\ result[1] \in 1..9

C18_ReturnsRowWithBalanceZero ==
  res.name = "create" =>
    /\ res.error \in {"none", "CONFLICT", "STORAGE", "INTERNAL_SERVER_ERROR"}
    /\ res.error = "none" =>
         /\ res.id \in DOMAIN accounts
         /\ res.account.balance = accounts[res.id].balance
         /\ res.account.balance = 0
         /\ res.account.status = "active"
         /\ res.account.accountType = res.accountType
         /\ res.account.userId = res.user

\* C18: createAccount returns the row it read back from the store after its
\* insert (status active, the requested type, the caller as owner, and the
\* balance the store holds, which is 0 plus the deposits committed on the new
\* account since the insert), or an explicit error; the error is the internal
\* one exactly when the read finds no row.
C18_ReturnsRowReadBack ==
  res.name = "create" =>
    /\ res.error \in {"none", "CONFLICT", "STORAGE", "INTERNAL_SERVER_ERROR"}
    /\ res.error = "INTERNAL_SERVER_ERROR" <=>
         (/\ res.error \notin {"CONFLICT", "STORAGE"}
          /\ ~\E i \in DOMAIN accounts : accounts[i].accountNumber = res.accountNumber)
    /\ res.error = "none" =>
         /\ res.id \in DOMAIN accounts
         /\ res.account.accountNumber = accounts[res.id].accountNumber
         /\ res.account.balance = accounts[res.id].balance
         /\ res.account.balance = SumAmounts(transactions, res.id)
         /\ res.account.status = "active"
         /\ res.account.accountType = res.accountType
         /\ res.account.userId = res.user

\* C18 witness: the second of two createAccount calls returns the account it
\* inserted
C18_Witness ==
  /\ res.name = "create" /\ res.error = "none"
  /\ res.account.balance = 0
  /\ Len(accounts) = NAccounts + 2

C20_LedgerIsAppendOnly ==
  [][/\ Len(transactions') \in {Len(transactions), Len(transactions) + 1}
     /\ SubSeq(transactions', 1, Len(transactions)) = transactions
     /\ (Len(transactions') = Len(transactions) + 1) <=>
          (res' # res /\ res'.name = "fund" /\ res'.error = "none")
     /\ (Len(transactions') = Len(transactions) + 1) =>
          LET row == transactions'[Len(transactions')]
          IN /\ row.type = "deposit" /\ row.status = "completed"
             /\ row.accountId = res'.accountId /\ row.amount = res'.amount]_vars

\* C20 witness: a deposit was appended after a committed one
C20_Witness ==
  /\ res.name = "fund" /\ res.error = "none"
  /\ Len(transactions) = 2
  /\ transactions[1] = res.beforeRows[1]

\* the owner's sessions that are not expired at the current time
NonExpiredOfUser(u) == {s \in SessionsOfUser(sessions, u) : ParseDate(s.expiresAt) > now}

TokensOf(S) == {s.token : s \in S}

\* C4: validateSessionToken(token) returns none if and only if the token has no
\* row in the store or the time read is at or past the row's expiresAt; at
\* exactly expiresAt it returns none, one millisecond before it returns the row.
C4_ValidateNoneIffAbsentOrExpired ==
  res.name = "validate" =>
    /\ res.ret = NullSession <=>
         \/ SessionByToken(sessions, res.token) = {}
         \/ \E s \in SessionByToken(sessions, res.token) : now >= ParseDate(s.expiresAt)
    /\ res.ret # NullSession => res.ret \in sessions /\ res.ret.token = res.token

\* C4 witness: a stored session is validated at exactly its expiresAt and none is returned
C4_Witness ==
  /\ res.name = "validate"
  /\ res.ret = NullSession
  /\ \E s \in SessionByToken(sessions, res.token) : ParseDate(s.expiresAt) = now

\* C5 as stated: after enforceSessionLimit(owner, keep) has run undisturbed, at
\* most one non-expired session of owner remains and it is keep, unless the
\* keep session is expired.
C5_RemainingIsKeepUnlessExpired ==
  (res.name = "enforce" /\ res.clean) =>
    /\ Cardinality(NonExpiredOfUser(res.user)) <= 1
    /\ (~ \E k \in SessionByToken(sessions, res.keepToken) : ParseDate(k.expiresAt) <= now)
         => \A s \in NonExpiredOfUser(res.user) : s.token = res.keepToken

\* C5 amended: after enforceSessionLimit(owner, keep) has run undisturbed, at
\* most one non-expired session of owner remains, and it is keep whenever keep
\* was one of the owner's sessions the call read.
C5_RemainingIsKeepWhenKeepWasRead ==
  (res.name = "enforce" /\ res.clean) =>
    /\ Cardinality(NonExpiredOfUser(res.user)) <= 1
    /\ res.keepToken \in TokensOf(res.seen)
         => \A s \in NonExpiredOfUser(res.user) : s.token = res.keepToken

\* C5 witness: a call that evicted a session and left the non-expired keep session
C5_Witness ==
  /\ res.name = "enforce" /\ res.clean /\ res.ret >= 1
  /\ res.keepToken \in TokensOf(res.seen)
  /\ TokensOf(NonExpiredOfUser(res.user)) = {res.keepToken}

\* C6: enforceSessionLimit run undisturbed changes nothing and returns 0 when
\* the owner has at most MAX_SESSIONS_PER_USER sessions; otherwise it removes
\* only sessions of that owner, oldest createdAt first, never the keepToken
\* session, leaves exactly the limit, and returns the number removed.
C6_EvictsOldestDownToLimit ==
  (res.name = "enforce" /\ res.clean) =>
    LET remaining == SessionsOfUser(sessions, res.user)
        removed == res.seen \ remaining
    IN /\ remaining \subseteq res.seen
       /\ Cardinality(res.seen) <= MAX_SESSIONS_PER_USER => remaining = res.seen /\ res.ret = 0
       /\ Cardinality(res.seen) > MAX_SESSIONS_PER_USER =>
            /\ Cardinality(remaining) = MAX_SESSIONS_PER_USER
            /\ res.ret = Cardinality(removed)
            /\ \A d \in removed :
                 /\ d.token # res.keepToken
                 /\ \A e \in remaining : e.token # res.keepToken => d.createdAt <= e.createdAt

\* C6 witness: after logins T1 then T2, enforceSessionLimit(owner, T2) removed T1 and kept T2
C6_Witness ==
  /\ res.name = "enforce" /\ res.clean /\ res.ret = 1
  /\ TokensOf(res.seen) = {1, 2} /\ res.keepToken = 2
  /\ TokensOf(SessionsOfUser(sessions, res.user)) = {2}
  /\ \E a \in res.seen : \E b \in res.seen : a.token = 1 /\ b.token = 2 /\ a.createdAt < b.createdAt

\* C7: invalidateSession returns true for a token in the store and removes it;
\* a call made after an earlier call on the same token returned true returns
\* false; for a token not in the store it returns false and changes nothing.
C7_InvalidateTrueThenFalse ==
  res.name = "invalidate" =>
    /\ res.prior => res.ret = FALSE
    /\ res.known => res.ret = TRUE
    /\ ~res.known => res.ret = FALSE /\ sessions = res.before
    /\ SessionByToken(sessions, res.token) = {}

\* C7 witness: the second call on a token whose first call returned true
C7_Witness == res.name = "invalidate" /\ res.prior /\ res.ret = FALSE /\ res.token \in Tokens

\* C8 as stated: cleanupExpiredSessions returns the number of rows it removed
C8_ReturnsNumberRemoved ==
  res.name = "cleanup" => res.ret = Cardinality(res.before \ sessions)

\* C9: after cleanupExpiredSessions at time now no session with expiresAt <= now
\* remains, every session with expiresAt > now is still there unchanged, and a
\* second call right after the first removes nothing and returns 0.
C9_SweepRemovesExactlyExpired ==
  res.name = "cleanup" =>
    /\ \A s \in sessions : ParseDate(s.expiresAt) > now
    /\ \A s \in res.before : ParseDate(s.expiresAt) > now => s \in sessions
    /\ sessions \subseteq res.before
    /\ res.again => sessions = res.before /\ res.ret = 0

\* C9 witness: the second of two consecutive sweeps, the first of which removed
\* a session and left another
C9_Witness ==
  res.name = "cleanup" /\ res.again /\ res.firstRemoved >= 1 /\ sessions # {}

\* C10: getUserActiveSessions(owner) returns exactly the owner's stored sessions
\* with expiresAt > now, which are exactly those validateSessionToken would
\* return at that time; an owner without sessions gets the empty list.
C10_ActiveIffValidates ==
  res.name = "active" =>
    /\ res.ret \subseteq SessionsOfUser(sessions, res.user)
    /\ \A s \in SessionsOfUser(sessions, res.user) :
         /\ s \in res.ret <=> ParseDate(s.expiresAt) > now
         /\ s \in res.ret <=> ValidateResult(sessions, s.token, now) = s
    /\ SessionsOfUser(sessions, res.user) = {} => res.ret = {}

\* C10 witness: the list holds one session and leaves out one that expires exactly now
C10_Witness ==
  /\ res.name = "active" /\ res.ret # {}
  /\ \E s \in SessionsOfUser(sessions, res.user) : ParseDate(s.expiresAt) = now /\ s \notin res.ret


\* C21: a session that was issued and is no longer in the store stays out of
\* the store in every later state, and validateSessionToken on its token
\* returns none.
C21_RemovedStaysRemoved ==
  /\ [][\A t \in Tokens :
          (t < nextToken /\ \A s \in sessions : s.token # t) => \A s \in sessions' : s.token # t]_vars
  /\ [](res.name \in {"validate", "validate_delete"} =>
          ((\A s \in sessions : s.token # res.token) => res.ret = NullSession))

\* C21 witness: validateSessionToken returns none for the token of a session
\* that an earlier invalidateSession removed, while another session is stored
C21_Witness ==
  /\ res.name = "validate" /\ res.ret = NullSession
  /\ res.token \in loggedOut
  /\ sessions # {}

\* C23: when the sweep and validateSessionToken's lazy delete of an expired
\* session interleave, the delete of a row that is already gone is a no-op,
\* validateSessionToken returns none, and every session either of them removes
\* is expired.
C23_SweepAndLazyDeleteAgree ==
  /\ res.name = "validate_delete" =>
       /\ res.ret = NullSession
       /\ sessions \subseteq res.before
       /\ \A s \in res.before \ sessions : s.token = res.token /\ ParseDate(s.expiresAt) <= now
       /\ (\A s \in res.before : s.token # res.token) => sessions = res.before
  /\ res.name = "cleanup" =>
       /\ sessions \subseteq res.before
       /\ \A s \in res.before \ sessions : ParseDate(s.expiresAt) <= now

\* C23 witness: the lazy delete runs after a sweep has removed its row, with a
\* session that is not expired in the store
C23_Witness ==
  /\ res.name = "validate_delete"
  /\ \A s \in res.before : s.token # res.token
  /\ swept.on /\ swept.removed >= 1
  /\ \E s \in sessions : ParseDate(s.expiresAt) > now

\* C25: validateSessionToken returns a stored session that is not expired and
\* leaves the store as it is; for a stored session that is expired it removes
\* that session and no other; for a token without a session it changes nothing.
C25_ValidateFrame ==
  /\ res.name = "validate" =>
       /\ sessions = res.before
       /\ \A s \in sessions : (s.token = res.token /\ ParseDate(s.expiresAt) > now) => res.ret = s
  /\ res.name = "validate_delete" =>
       /\ res.before \ sessions = {s \in res.before : s.token = res.token}
       /\ sessions \subseteq res.before
       /\ Cardinality(res.before \ sessions) <= 1

\* C25 witness: the lazy delete removed one expired session and left another session
C25_Witness ==
  /\ res.name = "validate_delete"
  /\ Cardinality(res.before \ sessions) = 1
  /\ sessions # {}


\* C29 (as stated; violated at now = expiresAt): for a stored session,
\* getSessionInfo's isExpired is true exactly when validateSessionToken on the
\* same token would return none at that time.
C29_IsExpiredIffValidateNone ==
  (res.name = "info" /\ res.ret # NoInfo) =>
    (res.ret.isExpired <=> ValidateResult(sessions, res.token, now) = NullSession)

\* C30 (as stated; violated without exceptToken): invalidateAllUserSessions
\* returns the number of sessions it removed, removes only sessions of that
\* user, and with exceptToken does not remove that session.
C30_ReturnsNumberRemoved ==
  res.name = "invalidate_all" =>
    /\ res.ret = Cardinality(res.gone)
    /\ \A x \in res.gone : x.userId = res.user /\ x.token # res.exceptToken


\* C24 (as stated; violated when two deposits get the same createdAt): in the
\* list getTransactions returns, a deposit committed later comes before every
\* deposit committed earlier.
C24_LaterCommitListedFirst ==
  (res.name = "transactions" /\ res.error = "none") =>
    \A i, j \in DOMAIN res.rows : i < j => res.rows[i].id > res.rows[j].id

\* C27 (as stated; violated when an earlier deposit has the same createdAt):
\* the transaction a successful fundAccount returns is the row this call
\* inserted, and its amount is the call's amount.
C27_ReturnsOwnRow ==
  (res.name = "fund" /\ res.error = "none") =>
    /\ \A i \in DOMAIN res.beforeRows : res.beforeRows[i].id # res.transaction.id
    /\ res.transaction.amount = res.amount


\* C22: when the logins (each an insert of a session followed by
\* enforceSessionLimit keeping its own token) have all completed their
\* enforceSessionLimit, no owner has more than MAX_SESSIONS_PER_USER sessions
\* in the store, whatever the interleaving.
C22_AtMostOneAfterLogins ==
  (\A p \in Procs : pc[p] = "idle") =>
    \A u \in Users : Cardinality({x \in sessions : x.userId = u}) <= MAX_SESSIONS_PER_USER

\* C22 witness: two logins of one owner overlapped (the second found its own
\* session already evicted by the first), both have completed, one session is left
C22_Witness ==
  /\ \A p \in Procs : pc[p] = "idle"
  /\ res.name = "enforce"
  /\ \A x \in res.seen : x.token # res.keepToken
  /\ nextToken > 2
  /\ Cardinality({x \in sessions : x.userId = res.user}) = 1

\* C28 (as stated; violated when both calls select before either deletes):
\* after two concurrent enforceSessionLimit calls of one owner that keep
\* different tokens, with both sessions stored, have completed, the owner
\* still has a session.
C28_OwnerKeepsASession ==
  (/\ \A p \in Procs : pc[p] = "idle"
   /\ res.name = "enforce"
   /\ \E x \in res.seen : x.token = res.keepToken) =>
    \E x \in sessions : x.userId = res.user


\* the positions of a worker inside a protected operation's handler
HandlerPcs == {"proc", "fund_begin", "tx_latest", "tx_update", "tx_reread"}

\* C26: a worker is inside a protected operation only for a request whose
\* token had a stored, non-expired session when createContext validated it;
\* every other request (no cookie, a token that does not verify, an unknown,
\* expired or removed session, no user row) ends with UNAUTHORIZED, and only
\* workers inside a protected operation change accounts or transactions.
C26_ProtectedOnlyWithValidSession ==
  /\ [](\A p \in Procs : pc[p] \in HandlerPcs =>
          /\ op[p].session.token = op[p].token
          /\ op[p].token \in Tokens
          /\ op[p].user \in Users
          /\ ParseDate(op[p].session.expiresAt) > op[p].validatedAt)
  /\ [][\A p \in Procs :
          /\ (pc'[p] = "ctx_user" /\ pc[p] # "ctx_user") =>
               (op'[p].session \in sessions /\ op'[p].validatedAt = now)
          /\ (pc'[p] = "proc" /\ pc[p] # "proc") =>
               (/\ pc[p] = "ctx_user"
                /\ op'[p].session = op[p].session
                /\ op'[p].token = op[p].token
                /\ op'[p].validatedAt = op[p].validatedAt)
          /\ (pc'[p] = "fund_begin" /\ pc[p] # "fund_begin") => pc[p] = "proc"
          /\ (pc[p] \in {"idle", "ctx_del", "ctx_user"} /\ pc'[p] = "idle" /\ res'.name = "request") =>
               res'.error = "UNAUTHORIZED"]_vars
  /\ [][(accounts' # accounts \/ transactions' # transactions) =>
          \E p \in Procs : pc[p] \in HandlerPcs /\ pc'[p] # pc[p]]_vars

\* C26 witness: a request carrying the token of a removed session was
\* rejected while another worker, validated, is inside fundAccount's unit
C26_Witness ==
  /\ res.name = "request" /\ res.error = "UNAUTHORIZED"
  /\ res.token \in loggedOut
  /\ \E p \in Procs : pc[p] \in {"tx_latest", "tx_update", "tx_reread"}

====
